---- MODULE Spec2Model ----
(***************************************************************************)
(* Model of baboossh.endpoint.Endpoint: one Endpoint object, the           *)
(* endpoints table it is saved to, the route-edge (paths) table, and the   *)
(* scan operation with its probe outcomes and edge bookkeeping.            *)
(***************************************************************************)
EXTENDS Integers, FiniteSets, Sequences, Bags, TLC

VARIABLES self, endpoints, paths, last, stdout, handles, hosts, connections, result

vars == <<self, endpoints, paths, last, stdout, handles, hosts, connections, result>>

\* ------------------------------------------------------------------ bounds
NumHosts == 1
MaxGwDistance == 1

\* --------------------------------------------------------------- constants
None == -1
EHOSTUNREACH == 113
PermissionDenied == 14

OtherErrno == {104}
OtherCode == {10}

Hosts == 1..NumHosts
AuthMethods == {"privkey", "password", "kbdint"}

\* The mechanism offers a server makes during one negotiation.
Offers == {{}, {"privkey", "password"}, AuthMethods}

\* A Connection usable as a gateway: the Host owning its endpoint (or None)
\* and its distance.
Connections == [host : Hosts \cup {None}, distance : 0..MaxGwDistance]

NoGateway == [used |-> FALSE, host |-> None, distance |-> None]
Gateway(c) == [used |-> TRUE, host |-> c.host, distance |-> c.distance]

\* What asyncssh.create_connection does under wait_for: the callbacks of
\* ScanSSHClient that fire, then how the awaited call ends.
NoProbe == [outcome |-> "none", code |-> None, errno |-> None,
            connMade |-> FALSE, offered |-> {}]
Probes ==
    { p \in [outcome : {"connected", "Error", "OSError", "TimeoutError"},
             code : {None, PermissionDenied} \cup OtherCode,
             errno : {None, EHOSTUNREACH} \cup OtherErrno,
             connMade : BOOLEAN,
             offered : Offers] :
        /\ (p.code # None) <=> (p.outcome = "Error")
        /\ (p.errno # None) <=> (p.outcome = "OSError")
        /\ (p.offered # {}) => p.connMade
        /\ (p.outcome = "connected") => p.connMade
        /\ (p.outcome = "Error" /\ p.code = PermissionDenied) => p.connMade
        /\ (p.outcome = "OSError") => (p.connMade <=> p.errno # EHOSTUNREACH) }

\* ------------------------------------------------------- storage helpers
Min(S) == CHOOSE x \in S : \A y \in S : x <= y
Max(S) == CHOOSE x \in S : \A y \in S : x >= y
NextId(table) == IF table = {} THEN 1 ELSE Max({r.id : r \in table}) + 1

ToSql(b) == IF b THEN 1 ELSE 0
ReachableToSql(r) == IF r = "None" THEN None ELSE IF r = "True" THEN 1 ELSE 0
ReachableFromSql(v) == IF v = None THEN "None" ELSE IF v # 0 THEN "True" ELSE "False"
Jauth(auth) == IF auth = {} THEN [null |-> TRUE, json |-> {}]
               ELSE [null |-> FALSE, json |-> auth]
AuthFromSql(col) == IF col.null THEN {} ELSE col.json

Row(e, id) ==
    [id |-> id, ip |-> e.ip, port |-> e.port, host |-> e.host,
     scanned |-> ToSql(e.scanned), reachable |-> ReachableToSql(e.reachable),
     distance |-> e.distance, auth |-> Jauth(e.auth),
     scope |-> ToSql(e.scope), found |-> e.found]

Matching(ip, port, table) == {r \in table : r.ip = ip /\ r.port = port}
FetchOne(rows) == CHOOSE r \in rows : r.id = Min({x.id : x \in rows})

\* ------------------------------------------------------------- Endpoint
\* As EndpointInit, reading reachable as a two-valued column.
EndpointInitTwoValued(ip, port, table) ==
    LET fresh == [ip |-> ip, port |-> port, host |-> None, id |-> None,
                  scope |-> TRUE, scanned |-> FALSE, reachable |-> "None",
                  distance |-> None, found |-> None, auth |-> {}]
        rows == Matching(ip, port, table)
    IN  IF rows = {} THEN fresh
        ELSE LET savedEndpoint == FetchOne(rows)
             IN [fresh EXCEPT !.id = savedEndpoint.id,
                              !.host = savedEndpoint.host,
                              !.scanned = (savedEndpoint.scanned # 0),
                              !.reachable = IF savedEndpoint.reachable = 1
                                            THEN "True" ELSE "False",
                              !.distance = savedEndpoint.distance,
                              !.auth = AuthFromSql(savedEndpoint.auth),
                              !.scope = (savedEndpoint.scope # 0),
                              !.found = savedEndpoint.found]

EndpointInit(ip, port, table) ==
    LET fresh == [ip |-> ip, port |-> port, host |-> None, id |-> None,
                  scope |-> TRUE, scanned |-> FALSE, reachable |-> "None",
                  distance |-> None, found |-> None, auth |-> {}]
        rows == Matching(ip, port, table)
    IN  IF rows = {} THEN fresh
        ELSE LET savedEndpoint == FetchOne(rows)
             IN [fresh EXCEPT !.id = savedEndpoint.id,
                              !.host = savedEndpoint.host,
                              !.scanned = (savedEndpoint.scanned # 0),
                              !.reachable = ReachableFromSql(savedEndpoint.reachable),
                              !.distance = savedEndpoint.distance,
                              !.auth = AuthFromSql(savedEndpoint.auth),
                              !.scope = (savedEndpoint.scope # 0),
                              !.found = savedEndpoint.found]

\* save(): UPDATE by id when the object has one, else INSERT and read the id
\* back by (ip, port).  The result is the object and the table afterwards.
save(e, table) ==
    IF e.id # None
    THEN [self |-> e,
          endpoints |-> {IF r.id = e.id THEN Row(e, e.id) ELSE r : r \in table}]
    ELSE LET inserted == table \cup {Row(e, NextId(table))}
         IN [self |-> [e EXCEPT !.id = FetchOne(Matching(e.ip, e.port, inserted)).id],
             endpoints |-> inserted]

\* ----------------------------------------------------------- route edges
\* The paths table is a bag of rows (src, dst): src the origin Host's id or
\* None, dst the destination Endpoint's id.  A Path object knows whether a
\* row for its (src, dst) is stored; save inserts a row when none is, delete
\* removes the object's row.
Edge(src, dst) == [src |-> src, dst |-> dst]
PathInit(src, dst, table) ==
    [src |-> src, dst |-> dst, stored |-> BagIn(Edge(src, dst), table)]
PathSave(p, table) ==
    IF p.stored THEN table ELSE table (+) SetToBag({Edge(p.src, p.dst)})
PathDelete(p, table) == table (-) SetToBag({Edge(p.src, p.dst)})

\* ----------------------------------------------------------------- scan
\* The ScanSSHClient callbacks write straight into the Endpoint object.
ScanSSHClient(e, p) ==
    [e EXCEPT !.reachable = IF p.connMade THEN "True" ELSE @,
              !.auth = @ \cup p.offered]

\* What print leaves on standard output when the condition holds.
Notice(cond, text) == IF cond THEN <<text>> ELSE <<>>

\* As AsyncScan, but the timeout branch saves only when it prints.
AsyncScanSilentSkipsSave(e, table, gateway, p, silent) ==
    LET e1 == ScanSSHClient([e EXCEPT !.scanned = TRUE], p)
    IN  IF p.outcome = "Error" /\ p.code # PermissionDenied
        THEN [self |-> e1, endpoints |-> table, done |-> FALSE,
              out |-> <<"asyncssh Error">>]
        ELSE IF p.outcome = "OSError"
        THEN [self |-> e1, endpoints |-> table, done |-> FALSE,
              out |-> Notice(p.errno = EHOSTUNREACH /\ ~silent, "No route to host")]
        ELSE IF p.outcome = "TimeoutError"
        THEN LET s == IF silent
                      THEN [self |-> [e1 EXCEPT !.reachable = "False"], endpoints |-> table]
                      ELSE save([e1 EXCEPT !.reachable = "False"], table)
             IN [self |-> s.self, endpoints |-> s.endpoints, done |-> FALSE,
                 out |-> Notice(~silent, "Timeout")]
        ELSE LET e2 == [e1 EXCEPT !.distance = IF ~gateway.used THEN 0
                                               ELSE gateway.distance + 1]
                 s == save(e2, table)
             IN [self |-> s.self, endpoints |-> s.endpoints, done |-> TRUE,
                 out |-> Notice(~silent, "Done")]

\* As AsyncScan, but the auth denial (code 14) is handled like any other
\* asyncssh error.
AsyncScanDeniedFails(e, table, gateway, p, silent) ==
    LET e1 == ScanSSHClient([e EXCEPT !.scanned = TRUE], p)
    IN  IF p.outcome \in {"Error", "OSError"}
        THEN [self |-> e1, endpoints |-> table, done |-> FALSE, out |-> <<>>]
        ELSE IF p.outcome = "TimeoutError"
        THEN LET s == save([e1 EXCEPT !.reachable = "False"], table)
             IN [self |-> s.self, endpoints |-> s.endpoints, done |-> FALSE,
                 out |-> Notice(~silent, "Timeout")]
        ELSE LET e2 == [e1 EXCEPT !.distance = IF ~gateway.used THEN 0
                                               ELSE gateway.distance + 1]
                 s == save(e2, table)
             IN [self |-> s.self, endpoints |-> s.endpoints, done |-> TRUE,
                 out |-> Notice(~silent, "Done")]

\* As AsyncScan, but an OSError is recorded like a timeout.
AsyncScanOSErrorSaves(e, table, gateway, p, silent) ==
    LET e1 == ScanSSHClient([e EXCEPT !.scanned = TRUE], p)
    IN  IF p.outcome = "Error" /\ p.code # PermissionDenied
        THEN [self |-> e1, endpoints |-> table, done |-> FALSE,
              out |-> <<"asyncssh Error">>]
        ELSE IF p.outcome \in {"OSError", "TimeoutError"}
        THEN LET s == save([e1 EXCEPT !.reachable = "False"], table)
             IN [self |-> s.self, endpoints |-> s.endpoints, done |-> FALSE,
                 out |-> Notice(~silent, "Timeout")]
        ELSE LET e2 == [e1 EXCEPT !.distance = IF ~gateway.used THEN 0
                                               ELSE gateway.distance + 1]
                 s == save(e2, table)
             IN [self |-> s.self, endpoints |-> s.endpoints, done |-> TRUE,
                 out |-> Notice(~silent, "Done")]

AsyncScan(e, table, gateway, p, silent) ==
    LET e1 == ScanSSHClient([e EXCEPT !.scanned = TRUE], p)
    IN  IF p.outcome = "Error" /\ p.code # PermissionDenied
        THEN [self |-> e1, endpoints |-> table, done |-> FALSE,
              out |-> <<"asyncssh Error">>]
        ELSE IF p.outcome = "OSError"
        THEN [self |-> e1, endpoints |-> table, done |-> FALSE,
              out |-> Notice(p.errno = EHOSTUNREACH /\ ~silent, "No route to host")]
        ELSE IF p.outcome = "TimeoutError"
        THEN LET s == save([e1 EXCEPT !.reachable = "False"], table)
             IN [self |-> s.self, endpoints |-> s.endpoints, done |-> FALSE,
                 out |-> Notice(~silent, "Timeout")]
        ELSE LET e2 == [e1 EXCEPT !.distance = IF ~gateway.used THEN 0
                                               ELSE gateway.distance + 1]
                 s == save(e2, table)
             IN [self |-> s.self, endpoints |-> s.endpoints, done |-> TRUE,
                 out |-> Notice(~silent, "Done")]

\* As ScanBookkeeping, but a successful probe saves no edge.
ScanBookkeepingNoSave(gateway, e, done, table) ==
    IF gateway.used /\ gateway.host = None THEN table
    ELSE LET gwHost == IF ~gateway.used THEN None ELSE gateway.host
             p == PathInit(gwHost, e.id, table)
         IN  IF done THEN table
             ELSE IF p.stored THEN PathDelete(p, table) ELSE table

\* As ScanBookkeeping, but a failed probe leaves the stored edge.
ScanBookkeepingNoDelete(gateway, e, done, table) ==
    IF gateway.used /\ gateway.host = None THEN table
    ELSE LET gwHost == IF ~gateway.used THEN None ELSE gateway.host
             p == PathInit(gwHost, e.id, table)
         IN  IF done THEN PathSave(p, table) ELSE table

\* As ScanBookkeeping, but returning early when no gateway was used.
ScanBookkeepingSkipDirect(gateway, e, done, table) ==
    IF ~gateway.used \/ gateway.host = None THEN table
    ELSE LET p == PathInit(gateway.host, e.id, table)
         IN  IF done THEN PathSave(p, table)
             ELSE IF p.stored THEN PathDelete(p, table) ELSE table

\* As ScanBookkeeping, but without the early return for a gateway whose
\* endpoint has no Host.
ScanBookkeepingNoHostEdge(gateway, e, done, table) ==
    LET gwHost == IF ~gateway.used THEN None ELSE gateway.host
        p == PathInit(gwHost, e.id, table)
    IN  IF done THEN PathSave(p, table)
        ELSE IF p.stored THEN PathDelete(p, table) ELSE table

\* Lines 334-347 of scan: the edge (gwHost -> self) follows the probe result.
ScanBookkeeping(gateway, e, done, table) ==
    IF gateway.used /\ gateway.host = None THEN table
    ELSE LET gwHost == IF ~gateway.used THEN None ELSE gateway.host
             p == PathInit(gwHost, e.id, table)
         IN  IF done THEN PathSave(p, table)
             ELSE IF p.stored THEN PathDelete(p, table) ELSE table

\* Whether the candidate edge was stored when scan looked it up ("none"
\* when scan does no lookup).
EdgeBefore(gateway, e, table) ==
    IF gateway.used /\ gateway.host = None THEN "none"
    ELSE IF PathInit(IF gateway.used THEN gateway.host ELSE None, e.id, table).stored
         THEN "stored" ELSE "absent"

Idle(op, ret) ==
    [op |-> op, ret |-> ret, gateway |-> NoGateway, probe |-> NoProbe, edge |-> "none"]
Raised(exc) == Idle("scan", exc)

\* As scan, but the Endpoint is marked scanned before the gateway is resolved.
scanMarksFirst(mode, conn, found, initOk, p, silent) ==
    IF mode = "auto" /\ ~found
    THEN /\ last' = Raised("NoPathException")
         /\ self' = [self EXCEPT !.scanned = TRUE]
         /\ UNCHANGED <<endpoints, paths>>
    ELSE IF mode # "None" /\ ~initOk
    THEN /\ last' = Raised("InitConnectError")
         /\ self' = [self EXCEPT !.scanned = TRUE]
         /\ UNCHANGED <<endpoints, paths>>
    ELSE LET gateway == IF mode = "None" THEN NoGateway ELSE Gateway(conn)
             r == AsyncScan(self, endpoints, gateway, p, silent)
         IN  /\ self' = r.self
             /\ endpoints' = r.endpoints
             /\ paths' = ScanBookkeeping(gateway, r.self, r.done, paths)
             /\ last' = [op |-> "scan", ret |-> IF r.done THEN "True" ELSE "False",
                         gateway |-> gateway, probe |-> p,
                         edge |-> EdgeBefore(gateway, r.self, paths)]

\* scan(gateway, silent): mode is the gateway argument ("auto", "None" or a
\* Connection conn); found tells whether Connection.find_one(gateway_to=self)
\* returns conn or raises NoPathException; initOk whether initConnect returns
\* a handle or raises; p is what the probe meets on the network.
scan(mode, conn, found, initOk, p, silent) ==
    IF mode = "auto" /\ ~found
    THEN /\ last' = Raised("NoPathException")
         /\ UNCHANGED <<self, endpoints, paths>>
    ELSE IF mode # "None" /\ ~initOk
    THEN /\ last' = Raised("InitConnectError")
         /\ UNCHANGED <<self, endpoints, paths>>
    ELSE LET gateway == IF mode = "None" THEN NoGateway ELSE Gateway(conn)
             r == AsyncScan(self, endpoints, gateway, p, silent)
         IN  /\ self' = r.self
             /\ endpoints' = r.endpoints
             /\ paths' = ScanBookkeeping(gateway, r.self, r.done, paths)
             /\ last' = [op |-> "scan", ret |-> IF r.done THEN "True" ELSE "False",
                         gateway |-> gateway, probe |-> p,
                         edge |-> EdgeBefore(gateway, r.self, paths)]

\* What the scan call prints.
ScanOut(mode, conn, found, initOk, p, silent) ==
    IF (mode = "auto" /\ ~found) \/ (mode # "None" /\ ~initOk) THEN <<>>
    ELSE AsyncScan(self, endpoints,
                   IF mode = "None" THEN NoGateway ELSE Gateway(conn), p, silent).out

\* The tunnel handle gw and the connection handle conn of the scan call:
\* "none" when the call holds no such handle, "open", "closed", or
\* "closeFailed" when close() raised and the exception was swallowed.
NoHandles == [tunnel |-> "none", conn |-> "none"]
Closed(closeOk) == IF closeOk THEN "closed" ELSE "closeFailed"

\* The handles when scan returns or raises (lines 324-332 and 282-285): gw is
\* acquired by initConnect before the probe and closed after it; conn exists
\* when create_connection returned and is closed right after.
HandlesAfter(mode, found, initOk, p, gwCloseOk, connCloseOk) ==
    IF (mode = "auto" /\ ~found) \/ (mode # "None" /\ ~initOk) THEN NoHandles
    ELSE [tunnel |-> IF mode = "None" THEN "none" ELSE Closed(gwCloseOk),
          conn |-> IF p.outcome = "connected" THEN Closed(connCloseOk) ELSE "none"]

\* No query has run.
NoResult == [raised |-> "None", queried |-> FALSE, rows |-> {}, args |-> <<>>]

\* A caller saves the object.
Save ==
    LET s == save(self, endpoints)
    IN  /\ self' = s.self
        /\ endpoints' = s.endpoints
        /\ last' = Idle("save", "None")
        /\ UNCHANGED <<paths, stdout, handles, hosts, connections, result>>

\* A caller constructs Endpoint(ip, port) again and goes on with that object.
Construct ==
    /\ self' = EndpointInit(self.ip, self.port, endpoints)
    /\ last' = Idle("init", "None")
    /\ UNCHANGED <<endpoints, paths, stdout, handles, hosts, connections, result>>

Init ==
    /\ endpoints = {}
    /\ paths = EmptyBag
    /\ self = EndpointInit("10.0.0.5", 22, {})
    /\ last = Idle("init", "None")
    /\ stdout = <<>>
    /\ handles = NoHandles
    /\ hosts = {}
    /\ connections = {}
    /\ result = NoResult

AnyConnection == CHOOSE c \in Connections : TRUE

\* The Connection the registry knows to reach the Endpoint, when it knows one.
GatewayTo == [host |-> 1, distance |-> 0]
AnyProbe == CHOOSE p \in Probes : TRUE

\* Automatic resolution finds no Connection reaching the Endpoint.
ScanNoPath ==
    /\ scan("auto", AnyConnection, FALSE, TRUE, AnyProbe, FALSE)
    /\ UNCHANGED <<stdout, handles, hosts, connections, result>>

\* The selected gateway gives no tunnel handle.
ScanNoHandle ==
    /\ \E conn \in Connections : scan("Connection", conn, TRUE, FALSE, AnyProbe, FALSE)
    /\ UNCHANGED <<stdout, handles, hosts, connections, result>>

\* Direct probe.
ScanDirect ==
    /\ \E p \in Probes : scan("None", AnyConnection, TRUE, TRUE, p, FALSE)
    /\ UNCHANGED <<stdout, handles, hosts, connections, result>>

\* Probe through the gateway the caller gives.
ScanGateway ==
    /\ \E conn \in Connections, p \in Probes : scan("Connection", conn, TRUE, TRUE, p, FALSE)
    /\ UNCHANGED <<stdout, handles, hosts, connections, result>>

\* Probe through the gateway that automatic resolution finds.
ScanAuto ==
    /\ \E p \in Probes : scan("auto", GatewayTo, TRUE, TRUE, p, FALSE)
    /\ UNCHANGED <<stdout, handles, hosts, connections, result>>

Next ==
    \/ ScanNoPath
    \/ ScanNoHandle
    \/ ScanDirect
    \/ ScanGateway
    \/ ScanAuto
    \/ Save
    \/ Construct

Spec == Init /\ [][Next]_vars

\* Scans whose output is kept: silent or not, direct or through the gateway
\* that automatic resolution finds.
ScanPrinting ==
    \E mode \in {"None", "auto"}, found \in BOOLEAN, p \in Probes, silent \in BOOLEAN :
        /\ scan(mode, GatewayTo, found, TRUE, p, silent)
        /\ stdout' = ScanOut(mode, GatewayTo, found, TRUE, p, silent)
        /\ UNCHANGED <<handles, hosts, connections, result>>

NextSilent == ScanPrinting \/ Save \/ Construct

SpecSilent == Init /\ [][NextSilent]_vars

\* A scan with its handles, close() failing or not: stopped before the probe,
\* direct, or through a gateway.
ScanClosing ==
    /\ \/ \E mode \in {"auto", "Connection"}, found \in BOOLEAN :
            /\ scan(mode, GatewayTo, found, FALSE, AnyProbe, FALSE)
            /\ handles' = HandlesAfter(mode, found, FALSE, AnyProbe, TRUE, TRUE)
       \/ \E p \in Probes, connCloseOk \in BOOLEAN :
            /\ p.outcome # "connected" => connCloseOk
            /\ scan("None", AnyConnection, TRUE, TRUE, p, FALSE)
            /\ handles' = HandlesAfter("None", TRUE, TRUE, p, TRUE, connCloseOk)
       \/ \E conn \in Connections, p \in Probes, gwCloseOk \in BOOLEAN, connCloseOk \in BOOLEAN :
            /\ p.outcome # "connected" => connCloseOk
            /\ scan("Connection", conn, TRUE, TRUE, p, FALSE)
            /\ handles' = HandlesAfter("Connection", TRUE, TRUE, p, gwCloseOk, connCloseOk)
    /\ UNCHANGED <<stdout, hosts, connections, result>>

\* What the probe meets when an exception that __asyncScan does not catch
\* comes out of the awaited call.
EscapingProbes ==
    { p \in [outcome : {"Exception"}, code : {None}, errno : {None},
             connMade : BOOLEAN, offered : Offers] : (p.offered # {}) => p.connMade }

\* scan when such an exception escapes __asyncScan: it goes through
\* run_until_complete (line 328) to the caller, after scanned was set and the
\* callbacks ran; lines 329-347 are not reached.
scanEscapes(mode, conn, p) ==
    LET gateway == IF mode = "None" THEN NoGateway ELSE Gateway(conn)
    IN  /\ self' = ScanSSHClient([self EXCEPT !.scanned = TRUE], p)
        /\ last' = [op |-> "scan", ret |-> "Exception", gateway |-> gateway,
                    probe |-> p, edge |-> "none"]
        /\ handles' = [tunnel |-> IF mode = "None" THEN "none" ELSE "open",
                       conn |-> "none"]
        /\ UNCHANGED <<endpoints, paths, stdout, hosts, connections, result>>

ScanEscapes ==
    \E mode \in {"None", "Connection"}, conn \in Connections, p \in EscapingProbes :
        scanEscapes(mode, conn, p)

NextHandles == ScanClosing \/ ScanEscapes \/ Save \/ Construct

SpecHandles == Init /\ [][NextHandles]_vars

\* ---------------------------------------------------------------- delete
\* The Endpoints a Host owns, the Connections to an Endpoint and the edges
\* targeting it.
HostEndpoints(h, table) == {r \in table : r.host = h}
ConnectionsTo(id, conns) == {c \in conns : c.endpoint = id}
PathsTo(id, ptable) == {x \in BagToSet(ptable) : x.dst = id}
WithoutPathsTo(id, ptable) ==
    ptable (-) [x \in PathsTo(id, ptable) |-> CopiesIn(x, ptable)]

\* As delete, but the owning Host is deleted whatever it still owns.
deleteAnyHost(e, table, hs, conns, ptable) ==
    IF e.id = None
    THEN [endpoints |-> table, hosts |-> hs, connections |-> conns, paths |-> ptable]
    ELSE [endpoints |-> {r \in table : r.id # e.id},
          hosts |-> IF e.host # None THEN hs \ {e.host} ELSE hs,
          connections |-> conns \ ConnectionsTo(e.id, conns),
          paths |-> WithoutPathsTo(e.id, ptable)]

\* delete(): nothing for an object without id; else the Host when this is
\* its single Endpoint, the Connections to the Endpoint, the edges targeting
\* it and the row with the object's id.
delete(e, table, hs, conns, ptable) ==
    IF e.id = None
    THEN [endpoints |-> table, hosts |-> hs, connections |-> conns, paths |-> ptable]
    ELSE [endpoints |-> {r \in table : r.id # e.id},
          hosts |-> IF e.host # None /\ Cardinality(HostEndpoints(e.host, table)) = 1
                    THEN hs \ {e.host} ELSE hs,
          connections |-> conns \ ConnectionsTo(e.id, conns),
          paths |-> WithoutPathsTo(e.id, ptable)]

\* A caller deletes the Endpoint through the object and keeps the object.
Delete ==
    LET d == delete(self, endpoints, hosts, connections, paths)
    IN  /\ endpoints' = d.endpoints
        /\ hosts' = d.hosts
        /\ connections' = d.connections
        /\ paths' = d.paths
        /\ last' = Idle("delete", "None")
        /\ UNCHANGED <<self, stdout, handles, result>>

\* Scans, saves, constructions and deletes of one Endpoint.
NextLife == Next \/ Delete

SpecLife == Init /\ [][NextLife]_vars

\* ------------------------------------------------- hosts and connections
\* A second Endpoint of the workspace, handled through objects of its own.
SiblingIp == "10.0.0.6"
Users == {"root"}

\* The identification code gives the object its Host and saves it.
Identify ==
    \E h \in Hosts :
        LET s == save([self EXCEPT !.host = h], endpoints)
        IN  /\ self' = s.self
            /\ endpoints' = s.endpoints
            /\ hosts' = hosts \cup {h}
            /\ last' = Idle("identify", "None")
            /\ UNCHANGED <<paths, stdout, handles, connections, result>>

\* Another object stores the second Endpoint, owned by a Host or by none.
SiblingOwned ==
    \E h \in Hosts \cup {None} :
        LET other == EndpointInit(SiblingIp, 22, endpoints)
            s == save([other EXCEPT !.host = h], endpoints)
        IN  /\ endpoints' = s.endpoints
            /\ hosts' = IF h = None THEN hosts ELSE hosts \cup {h}
            /\ last' = Idle("sibling", "None")
            /\ UNCHANGED <<self, paths, stdout, handles, connections, result>>

\* A Connection to a stored Endpoint is saved.
Connect ==
    \E r \in endpoints, u \in Users :
        /\ connections' = connections \cup {[endpoint |-> r.id, user |-> u]}
        /\ last' = Idle("connect", "None")
        /\ UNCHANGED <<self, endpoints, paths, stdout, handles, hosts, result>>

\* A route edge to a stored Endpoint is saved, as a successful scan does.
Link ==
    \E r \in endpoints, src \in Hosts \cup {None} :
        /\ paths' = PathSave(PathInit(src, r.id, paths), paths)
        /\ last' = Idle("link", "None")
        /\ UNCHANGED <<self, endpoints, stdout, handles, hosts, connections, result>>

NextCrud ==
    \/ Construct
    \/ Save
    \/ Delete
    \/ Identify
    \/ SiblingOwned
    \/ Connect
    \/ Link

SpecCrud == Init /\ [][NextCrud]_vars

\* -------------------------------------------------------------- queries
search_fields == {"ip", "port", "auth"}
Fields == search_fields \cup {"id"}
Vals == {"5", "22", "password"}
Scopes == {"None", "True", "False"}

\* The text SQLite compares a column with, and LIKE '%val%' on it for the
\* values of Vals: val occurs in the text.
PortText(port) == IF port = 22 THEN "22" ELSE "0"
Occurs(val, text) ==
    <<val, text>> \in {<<"5", "10.0.0.5">>, <<"22", "22">>, <<"password", "password">>}
Like(val, r, field) ==
    IF field = "ip" THEN Occurs(val, r.ip)
    ELSE IF field = "port" THEN Occurs(val, PortText(r.port))
    ELSE IF field = "auth" THEN ~r.auth.null /\ \E m \in r.auth.json : Occurs(val, m)
    ELSE Occurs(val, "1")

\* The Endpoint objects built from the selected rows, by identity.
Endpoints(rows) == {<<r.ip, r.port>> : r \in rows}

\* As search, without the check of field.
searchUnchecked(field, val, show_all, table) ==
    [raised |-> "None", queried |-> TRUE,
     rows |-> Endpoints({r \in table :
                 (show_all \/ r.scope = ToSql(TRUE)) /\ Like(val, r, field)}),
     out |-> <<field>>]

\* search(): ValueError for a field outside search_fields, before anything
\* else; else the field is printed and the rows whose column is LIKE %val%
\* are selected, in scope only unless show_all.
search(field, val, show_all, table) ==
    IF field \notin search_fields
    THEN [raised |-> "ValueError", queried |-> FALSE, rows |-> {}, out |-> <<>>]
    ELSE [raised |-> "None", queried |-> TRUE,
          rows |-> Endpoints({r \in table :
                      (show_all \/ r.scope = ToSql(TRUE)) /\ Like(val, r, field)}),
          out |-> <<field>>]

\* find_all(): with found None the rows, of the given scope when one is
\* given; with found given the query's parameter is built from the name
\* endpoint, which the function does not define.
find_all(scope, found, table) ==
    IF found = None
    THEN [raised |-> "None", queried |-> TRUE,
          rows |-> Endpoints(IF scope = "None" THEN table
                             ELSE {r \in table : r.scope = ToSql(scope = "True")})]
    ELSE [raised |-> "NameError", queried |-> FALSE, rows |-> {}]

Search ==
    \E field \in Fields, val \in Vals, show_all \in BOOLEAN :
        LET s == search(field, val, show_all, endpoints)
        IN  /\ result' = [raised |-> s.raised, queried |-> s.queried, rows |-> s.rows,
                          args |-> <<field, val, IF show_all THEN "True" ELSE "False">>]
            /\ stdout' = s.out
            /\ last' = Idle("search", s.raised)
            /\ UNCHANGED <<self, endpoints, paths, handles, hosts, connections>>

FindAll ==
    \E scope \in Scopes, found \in {None, 1} :
        LET f == find_all(scope, found, endpoints)
        IN  /\ result' = [raised |-> f.raised, queried |-> f.queried, rows |-> f.rows,
                          args |-> <<scope, IF found = None THEN "None" ELSE "Endpoint">>]
            /\ stdout' = <<>>
            /\ last' = Idle("find_all", f.raised)
            /\ UNCHANGED <<self, endpoints, paths, handles, hosts, connections>>

\* The workspace takes the Endpoint in or out of scope.
Rescope ==
    /\ self' = [self EXCEPT !.scope = ~@]
    /\ last' = Idle("scope", "None")
    /\ UNCHANGED <<endpoints, paths, stdout, handles, hosts, connections, result>>

\* Another object stores the second Endpoint, in or out of scope.
SiblingScoped ==
    \E sc \in BOOLEAN :
        LET other == EndpointInit(SiblingIp, 22, endpoints)
            s == save([other EXCEPT !.scope = sc], endpoints)
        IN  /\ endpoints' = s.endpoints
            /\ last' = Idle("sibling", "None")
            /\ UNCHANGED <<self, paths, stdout, handles, hosts, connections, result>>

\* A direct probe that is answered, and one that is not.
QuickProbes ==
    {p \in Probes : /\ p.outcome \in {"connected", "TimeoutError"}
                    /\ p.offered = (IF p.connMade THEN {"privkey", "password"} ELSE {}) }
ScanQuick ==
    /\ \E p \in QuickProbes : scan("None", AnyConnection, TRUE, TRUE, p, FALSE)
    /\ UNCHANGED <<stdout, handles, hosts, connections, result>>

NextRecord ==
    \/ Construct
    \/ Save
    \/ Rescope
    \/ SiblingScoped
    \/ ScanQuick
    \/ Search
    \/ FindAll

SpecRecord == Init /\ [][NextRecord]_vars

\* ---------------------------------------------------------------- claims
\* The stored record(s) of the Endpoint's (ip, port).
Stored == Matching(self.ip, self.port, endpoints)

\* The last operation was a scan whose probe ran and that returned a boolean.
Scanned == last.op = "scan" /\ last.ret \in {"True", "False"}

ProbeEstablished(p) ==
    /\ p.connMade
    /\ \/ p.outcome = "connected"
       \/ p.outcome = "Error" /\ p.code = PermissionDenied

ExpectedDistance(gateway) == IF gateway.used THEN gateway.distance + 1 ELSE 0

\* C1: when scan returns, reachable = Reachable if and only if distance is
\* set, for the Endpoint object and for its stored record.
C1_ReachableIffDistance ==
    Scanned =>
        /\ (self.reachable = "True") <=> (self.distance # None)
        /\ \A r \in Stored : (r.reachable = 1) <=> (r.distance # None)

\* C2: when scan returns, authMethods is non-empty only if reachable =
\* Reachable.
C2_AuthOnlyIfReachable ==
    Scanned => (self.auth # {} => self.reachable = "True")

\* C3: a probe that establishes the connection (auth denial included) makes
\* scan return true with the stored record Reachable, holding every offered
\* mechanism, at distance 0 without gateway and gateway.distance + 1 with one.
C3_EstablishedProbe ==
    (last.op = "scan" /\ ProbeEstablished(last.probe)) =>
        /\ last.ret = "True"
        /\ \E r \in Stored :
            /\ r.id = self.id
            /\ r.scanned = 1
            /\ r.reachable = 1
            /\ last.probe.offered \subseteq AuthFromSql(r.auth)
            /\ r.distance = ExpectedDistance(last.gateway)

\* C3 witness: through a gateway at distance 1 the server offers password and
\* public key, then denies the login; the record is Reachable at distance 2.
C3_Witness ==
    /\ last.op = "scan" /\ last.ret = "True"
    /\ last.gateway.used /\ last.gateway.distance = 1
    /\ last.probe.outcome = "Error" /\ last.probe.code = PermissionDenied
    /\ last.probe.offered = {"privkey", "password"}
    /\ \E r \in Stored : /\ r.reachable = 1 /\ r.distance = 2
                         /\ AuthFromSql(r.auth) = {"privkey", "password"}

\* Scans through a gateway whose Connection is bound to a known Host.
ViaHost(l) == l.op = "scan" /\ l.ret \in {"True", "False"} /\ l.gateway.used /\ l.gateway.host # None

\* Every edge other than ed has as many rows after the step as before.
OthersUnchanged(ed) ==
    \A x \in BagToSet(paths) \cup BagToSet(paths') :
        x # ed => CopiesIn(x, paths') = CopiesIn(x, paths)

\* C4: after a successful scan through a gateway bound to a known Host the
\* graph holds the edge (gatewayHost -> Endpoint) exactly once, and a
\* successful scan that finds the edge stored leaves the graph as it was.
C4_EdgeOnceInv ==
    (ViaHost(last) /\ last.ret = "True") =>
        CopiesIn(Edge(last.gateway.host, self.id), paths) = 1
C4_EdgeOnceStep ==
    (/\ ViaHost(last') /\ last'.ret = "True"
     /\ BagIn(Edge(last'.gateway.host, self'.id), paths)) => paths' = paths
C4_EdgeOnce == [](C4_EdgeOnceInv) /\ [][C4_EdgeOnceStep]_vars

\* C4 witness: a repeated successful scan through the gateway on host 1.
C4_Witness ==
    /\ ViaHost(last) /\ last.ret = "True" /\ last.gateway.host = 1
    /\ last.edge = "stored"
    /\ CopiesIn(Edge(1, self.id), paths) = 1

\* C5: a failing scan through a gateway bound to a known Host removes the
\* edge (gatewayHost -> Endpoint) that existed and changes no other edge; the
\* edge is absent after every such failure and comes back only by a
\* successful scan through that Host, so the graph never holds an edge whose
\* latest probe through its origin Host failed.
C5_FailRemovesStep ==
    (/\ ViaHost(last') /\ last'.ret = "False"
     /\ BagIn(Edge(last'.gateway.host, self'.id), paths)) =>
        /\ ~BagIn(Edge(last'.gateway.host, self'.id), paths')
        /\ OthersUnchanged(Edge(last'.gateway.host, self'.id))
C5_EdgeFromSuccessStep ==
    \A x \in BagToSet(paths') :
        (x.src # None /\ CopiesIn(x, paths') > CopiesIn(x, paths)) =>
            /\ ViaHost(last') /\ last'.ret = "True"
            /\ x = Edge(last'.gateway.host, self'.id)
C5_NoDisprovedEdge ==
    (ViaHost(last) /\ last.ret = "False") =>
        ~BagIn(Edge(last.gateway.host, self.id), paths)
C5_FailRemoves ==
    /\ [](C5_NoDisprovedEdge)
    /\ [][C5_FailRemovesStep /\ C5_EdgeFromSuccessStep]_vars

\* C5 witness: the scan through host 1 failed, its stored edge is gone and
\* another edge is still in the graph.
C5_Witness ==
    /\ ViaHost(last) /\ last.ret = "False" /\ last.gateway.host = 1
    /\ last.edge = "stored"
    /\ ~BagIn(Edge(1, self.id), paths)
    /\ paths # EmptyBag

Direct(l) == l.op = "scan" /\ l.ret \in {"True", "False"} /\ ~l.gateway.used

\* C6 as claimed: a scan with no gateway leaves the set of route edges as it
\* was, whatever its outcome.
C6_DirectNoBookkeeping == [][Direct(last') => paths' = paths]_vars

\* C6 amended: a scan with no gateway keeps the edge (none -> Endpoint) in
\* step with the probe, exactly one row after success and none after
\* failure, and leaves every other edge unchanged.
C6_DirectEdgeStep ==
    Direct(last') =>
        /\ last'.ret = "True" => CopiesIn(Edge(None, self'.id), paths') = 1
        /\ last'.ret = "False" => CopiesIn(Edge(None, self'.id), paths') = 0
        /\ OthersUnchanged(Edge(None, self'.id))
C6_DirectEdge == [][C6_DirectEdgeStep]_vars

\* C6 witness: a direct scan succeeded and created the edge from origin none,
\* next to an edge from a Host.
C6_Witness ==
    /\ Direct(last) /\ last.ret = "True" /\ last.edge = "absent"
    /\ CopiesIn(Edge(None, self.id), paths) = 1
    /\ \E h \in Hosts : BagIn(Edge(h, self.id), paths)

\* C7: a probe that hits the deadline makes scan return false with scanned
\* and Unreachable stored, and changes neither distance nor authMethods.
C7_TimeoutStep ==
    (last'.op = "scan" /\ last'.probe.outcome = "TimeoutError") =>
        /\ last'.ret = "False"
        /\ self'.scanned /\ self'.reachable = "False"
        /\ \E r \in Matching(self'.ip, self'.port, endpoints') :
              r.scanned = 1 /\ r.reachable = 0
        /\ self'.distance = self.distance
        /\ self'.auth = self.auth
C7_Timeout == [][C7_TimeoutStep]_vars

\* The stored rows with the scanned column blanked.
BesidesScanned(table) == {[r EXCEPT !.scanned = 0] : r \in table}

\* C8: when the host cannot be reached at network level (OSError before any
\* connection), scan returns false, reachable stays as it was and the stored
\* record changes in nothing but scanned.
C8_UnreachableStep ==
    (last'.op = "scan" /\ last'.probe.outcome = "OSError" /\ ~last'.probe.connMade) =>
        /\ last'.ret = "False"
        /\ self'.reachable = self.reachable
        /\ BesidesScanned(endpoints') = BesidesScanned(endpoints)
C9_ProtocolErrorStep ==
    (/\ last'.op = "scan" /\ last'.probe.outcome = "Error"
     /\ last'.probe.code # PermissionDenied) =>
        /\ last'.ret = "False"
        /\ self'.reachable = self.reachable
        /\ self'.distance = self.distance
        /\ self'.auth = self.auth
C9_ProtocolError == [][C9_ProtocolErrorStep]_vars

\* C10: when gateway resolution or handle acquisition fails, scan raises, no
\* probe runs and the Endpoint, its record and the graph are unchanged; a
\* returned boolean always comes from a probe that ran.
C10_RaisedStep ==
    (last'.op = "scan" /\ last'.ret \notin {"True", "False"}) =>
        /\ last'.ret \in {"NoPathException", "InitConnectError"}
        /\ last'.probe = NoProbe
        /\ UNCHANGED <<self, endpoints, paths>>
C10_BooleanFromProbe == Scanned => (last.probe # NoProbe /\ self.scanned)
C10_Raised == [](C10_BooleanFromProbe) /\ [][C10_RaisedStep]_vars

\* C10 witness: automatic resolution finds no path for an Endpoint that was
\* scanned before and has edges.
C10_Witness ==
    /\ last.op = "scan" /\ last.ret = "NoPathException"
    /\ self.reachable = "True"
    /\ paths # EmptyBag

\* C12: when scan returns after a probe, the stored record equals the
\* Endpoint object on scanned, reachable, distance and authMethods, with
\* scanned stored as true.
C12_CommittedAtReturn ==
    Scanned =>
        \E r \in Stored :
            /\ r.id = self.id
            /\ r.scanned = 1
            /\ r.scanned = ToSql(self.scanned)
            /\ r.reachable = ReachableToSql(self.reachable)
            /\ r.distance = self.distance
            /\ r.auth = Jauth(self.auth)

\* The boolean the probe yields: true when the connection attempt ends
\* without exception or with the auth denial.
ProbeResult(p) ==
    IF p.outcome = "connected" \/ (p.outcome = "Error" /\ p.code = PermissionDenied)
    THEN "True" ELSE "False"

\* C19: a scan through a gateway whose Connection's endpoint has no Host
\* leaves the route edges as they were and returns the probe's boolean.
C19_NoHostStep ==
    (/\ last'.op = "scan" /\ last'.ret \in {"True", "False"}
     /\ last'.gateway.used /\ last'.gateway.host = None) =>
        /\ paths' = paths
        /\ last'.ret = ProbeResult(last'.probe)
C19_NoHost == [][C19_NoHostStep]_vars

\* C19 witness: a successful scan through a gateway without Host, with edges
\* in the graph.
C19_Witness ==
    /\ last.op = "scan" /\ last.ret = "True"
    /\ last.gateway.used /\ last.gateway.host = None
    /\ paths # EmptyBag

\* C17: the silent flag does not influence state: with silent true and with
\* silent false the scan of the same Endpoint, store and graph through the
\* same gateway with the same probe outcome gives the return value, the
\* Endpoint, the stored rows and the route edges that the step gave.
C17_SilentStep ==
    (last'.op = "scan" /\ last'.ret \in {"True", "False"}) =>
        \A silent \in BOOLEAN :
            LET r == AsyncScan(self, endpoints, last'.gateway, last'.probe, silent)
            IN  /\ r.self = self'
                /\ r.endpoints = endpoints'
                /\ (IF r.done THEN "True" ELSE "False") = last'.ret
                /\ ScanBookkeeping(last'.gateway, r.self, r.done, paths) = paths'
C17_Silent == [][C17_SilentStep]_vars

\* C17 witness: a silent scan timed out, printed nothing and stored
\* Unreachable.
C17_Witness ==
    /\ last.op = "scan" /\ last.ret = "False"
    /\ last.probe.outcome = "TimeoutError"
    /\ stdout = <<>>
    /\ handles = NoHandles
    /\ hosts = {}
    /\ connections = {}
    /\ result = NoResult
    /\ \E r \in Stored : r.reachable = 0

\* C11: when scan returns or raises, the tunnel handle it acquired and the
\* connection handle the probe opened have been closed (close() was called
\* on them), the tunnel handle was acquired before the probe, and a failing
\* close() leaves the result the probe's.
C11_HandlesClosed ==
    last.op = "scan" =>
        /\ handles.tunnel # "open"
        /\ handles.conn # "open"
        /\ (last.gateway.used /\ last.probe # NoProbe) => handles.tunnel # "none"
        /\ last.ret \in {"True", "False"} => last.ret = ProbeResult(last.probe)

\* C14: save() completes and leaves exactly one stored record for the
\* object's (ip, port), holding the object's attributes, with the object's
\* id set.
C14_SaveUpserts ==
    last.op = "save" =>
        /\ self.id # None
        /\ Stored = {Row(self, self.id)}

\* C20: every route edge targets an Endpoint that has a record in the store.
C20_EdgesTargetRecords ==
    \A x \in BagToSet(paths) : \E r \in endpoints : r.id = x.dst

\* C13: delete() on a persisted Endpoint leaves no record of it, no
\* Connection to it and no edge targeting it, and deletes its owning Host
\* exactly when the Endpoint was that Host's only one; delete() on a never
\* persisted Endpoint changes nothing.
Persisted == \E r \in Stored : r.id = self.id
OwnsAlone == self.host # None /\ HostEndpoints(self.host, endpoints) = Stored
C13_DeleteStep ==
    last'.op = "delete" =>
        /\ Persisted =>
              /\ Matching(self.ip, self.port, endpoints') = {}
              /\ ConnectionsTo(self.id, connections') = {}
              /\ PathsTo(self.id, paths') = {}
              /\ hosts' = IF OwnsAlone THEN hosts \ {self.host} ELSE hosts
        /\ self.id = None =>
              UNCHANGED <<self, endpoints, paths, hosts, connections>>
C13_Delete == [][C13_DeleteStep]_vars
C13_Cascaded ==
    /\ last.op = "delete"
    /\ self.id # None
    /\ self.host # None
    /\ self.host \notin hosts
    /\ Stored = {}
    /\ \E r \in endpoints : r.host = None /\ ConnectionsTo(r.id, connections) # {}

\* C15: once an Endpoint of an identity is stored, constructing
\* Endpoint(ip, port) yields an object with the stored record's id and its
\* scanned, reachable, distance, auth and scope values.
C15_ConstructLoads ==
    (last.op = "init" /\ Stored # {}) =>
        \E r \in Stored :
            /\ self.id = r.id
            /\ ToSql(self.scanned) = r.scanned
            /\ ReachableToSql(self.reachable) = r.reachable
            /\ self.distance = r.distance
            /\ Jauth(self.auth) = r.auth
            /\ ToSql(self.scope) = r.scope
C15_Witness ==
    /\ last.op = "init"
    /\ Stored # {}
    /\ Cardinality(endpoints) = 2
    /\ self.scanned
    /\ self.reachable = "False"
    /\ self.auth # {}
    /\ ~self.scope

\* C16: search with a field outside the allow-list fails with a validation
\* error before any query runs, whatever the stored Endpoints.
C16_Validation ==
    (last.op = "search" /\ result.args[1] \notin search_fields) =>
        /\ result.raised = "ValueError"
        /\ ~result.queried
        /\ result.rows = {}
C16_Witness ==
    /\ last.op = "search"
    /\ result.args[1] = "id"
    /\ result.raised = "ValueError"
    /\ Cardinality(endpoints) = 2

\* C18: find_all returns exactly the stored Endpoints that match: those
\* found through the given Endpoint when one is given, of the given scope
\* when one is given, and every stored Endpoint when neither is given.
FoundVia(arg) == IF arg = "None" THEN endpoints ELSE {r \in endpoints : r.found = 1}
InScope(arg, rows) ==
    IF arg = "None" THEN rows ELSE {r \in rows : r.scope = ToSql(arg = "True")}
C18_FindAllExact ==
    last.op = "find_all" =>
        /\ result.raised = "None"
        /\ result.rows = Endpoints(InScope(result.args[1], FoundVia(result.args[2])))

====
